---------------------------- MODULE Spec2Model ----------------------------
(***************************************************************************)
(* A model of the two batch stages of top-github-repositories:            *)
(*   - the fetcher   (scripts/fetch_data.py):   _main, fetch_github_repos  *)
(*   - the processor (scripts/process_data.py): _main, load_raw_data,      *)
(*     process_data, save_processed_data                                   *)
(* The stages are separate processes that only share a flat file, so each  *)
(* has its own specification (SpecFetch, SpecProc) over its own variables; *)
(* the other stage's variables stay at their idle values.                  *)
(***************************************************************************)
EXTENDS Integers, Sequences, FiniteSets

VARIABLES
    env,            \* fetcher: value of os.getenv("GITHUB_TOKEN")
    mpc,            \* fetcher: position of _main
    fpc,            \* fetcher: position of fetch_github_repos
    page,           \* fetcher: local `page`
    repos,          \* fetcher: local `repos`
    requests,       \* fetcher: params["page"] of every requests.get call, in order
    responses,      \* fetcher: what each requests.get call produced, in order
    fresult,        \* fetcher: value returned by fetch_github_repos
    fexc,           \* fetcher: exception raised out of fetch_github_repos
    flog,           \* fetcher: records written through logging
    rawFile,        \* fetcher: content of data/raw/github_repos.csv
    ppc,            \* processor: position of _main
    inputFile,      \* processor: content of the raw csv at input_path
    df,             \* processor: the DataFrame held by _main
    pexc,           \* processor: exception raised inside _main's try block
    plog,           \* processor: records written through logging
    processedFile   \* processor: content of the processed csv at output_path

fetchVars == <<env, mpc, fpc, page, repos, requests, responses, fresult, fexc, flog, rawFile>>
procVars == <<ppc, inputFile, df, pexc, plog, processedFile>>
vars == <<env, mpc, fpc, page, repos, requests, responses, fresult, fexc, flog, rawFile,
          ppc, inputFile, df, pexc, plog, processedFile>>

-----------------------------------------------------------------------------
(* Bounds of the model *)

\* largest number of items the search endpoint puts in one page of the model
MaxItems == 2

-----------------------------------------------------------------------------
(* Values shared by both stages *)

\* Python's None / a pandas missing value, where the other values are strings
Null == "<null>"
\* no exception
NoExc == "<none>"
\* a variable that holds no table yet, and one that holds table t (a table is
\* the sequence of its rows)
NoTable == <<>>
Table(t) == <<t>>
\* a file that does not exist, a file left behind by an earlier run, and a
\* file holding table t
Absent == [state |-> "absent", rows |-> <<>>]
Stale == [state |-> "stale", rows |-> <<>>]
Written(t) == [state |-> "written", rows |-> t]

-----------------------------------------------------------------------------
(* The fetcher: scripts/fetch_data.py *)

\* `while page <= 10`
MaxPages == 10
\* `response.status_code == 200`
StatusOK == 200

\* the values os.getenv("GITHUB_TOKEN") can have: unset, empty, set
TokenValues == {Null, "", "fake_token"}

\* a faulty variant of TokenMissing: `if github_token is None`
TokenMissingOnlyNone(token) == token = Null
\* `if not github_token`: None and the empty string are both falsy
TokenMissing(token) == token = Null \/ token = ""

\* status codes the endpoint answers with
StatusCodes == {StatusOK, 204, 403}

\* what requests.get(url, headers=headers, params=params) can produce: a 200
\* response whose JSON body has an "items" field with n objects (n in
\* 0..MaxItems) or has none, a response with another status (its body has no
\* "items"), or an exception raised by the transport
Outcomes ==
    {[kind |-> "response", status |-> StatusOK, hasItems |-> TRUE, n |-> k] : k \in 0..MaxItems}
    \cup {[kind |-> "response", status |-> StatusOK, hasItems |-> FALSE, n |-> 0]}
    \cup {[kind |-> "response", status |-> s, hasItems |-> FALSE, n |-> 0] :
            s \in StatusCodes \ {StatusOK}}
    \cup {[kind |-> "exception", status |-> 0, hasItems |-> FALSE, n |-> 0]}

\* the i-th repository object of page p in the endpoint's JSON
ApiItem(p, i) ==
    [name |-> (100 * p) + i,
     language |-> IF i = 1 THEN "Python" ELSE Null,
     stargazers_count |-> 100000 - (100 * p) - i,
     forks_count |-> i - 1,
     created_at |-> 2020 - p,
     pushed_at |-> 2022,
     html_url |-> (100 * p) + i]

\* `data = response.json()` for the response `out` to the request for page p
Json(p, out) == [hasItems |-> out.hasItems, items |-> [i \in 1..out.n |-> ApiItem(p, i)]]

\* a faulty variant of LoopCondition: one page too many
LoopConditionOffByOne(p) == p <= MaxPages + 1
\* `while page <= 10`
LoopCondition(p) == p <= MaxPages

\* a faulty variant of IsSuccess: every 2xx status taken for success
IsSuccessBelow300(status) == status < 300
\* `if response.status_code == 200`
IsSuccess(status) == status = StatusOK

\* a faulty variant of NoMoreData: an empty "items" list does not stop the loop
NoMoreDataOnlyMissingField(data) == ~data.hasItems
\* `if "items" not in data or not data["items"]`
NoMoreData(data) == ~data.hasItems \/ data.items = <<>>

\* the dict built for one repo inside repos.extend([...])
ToRow(repo) ==
    [name |-> repo.name,
     language |-> repo.language,
     stars |-> repo.stargazers_count,
     forks |-> repo.forks_count,
     creation_date |-> repo.created_at,
     last_commit_date |-> repo.pushed_at,
     repo_url |-> repo.html_url]

\* a faulty variant of ExtendRepos: the page replaces what was accumulated
ExtendReposOverwrite(acc, items) == [i \in 1..Len(items) |-> ToRow(items[i])]
\* `repos.extend([... for repo in data["items"]])`
ExtendRepos(acc, items) == acc \o [i \in 1..Len(items) |-> ToRow(items[i])]

\* `if not repos: return pd.DataFrame()`, else `return pd.DataFrame(repos)`
ReturnValue(acc) == IF acc = <<>> THEN <<>> ELSE acc

\* a record of the fetcher's log: level, the message's fixed text, and the
\* page the message names (0 when it names none)
LogRec(level, msg, p) == <<level, msg, p>>

InitFetch ==
    /\ env \in TokenValues
    /\ rawFile = Absent
    /\ mpc = "start"
    /\ fpc = "idle"
    /\ page = 0
    /\ repos = <<>>
    /\ requests = <<>>
    /\ responses = <<>>
    /\ fresult = NoTable
    /\ fexc = NoExc
    /\ flog = <<>>
    /\ ppc = "idle"
    /\ inputFile = Absent
    /\ df = NoTable
    /\ pexc = NoExc
    /\ plog = <<>>
    /\ processedFile = Absent

\* _main: ensure_directories(), then the call of fetch_github_repos()
MainCallFetch ==
    /\ mpc = "start"
    /\ mpc' = "fetching"
    /\ fpc' = "entry"
    /\ UNCHANGED <<env, page, repos, requests, responses, fresult, fexc, flog, rawFile>>
    /\ UNCHANGED procVars

\* fetch_github_repos, lines 50-65: the token check and the locals
FetchEntry ==
    /\ fpc = "entry"
    /\ IF TokenMissing(env)
       THEN /\ flog' = Append(flog, LogRec("ERROR", "GitHub token not found", 0))
            /\ fexc' = "EnvironmentError"
            /\ fpc' = "raised"
            /\ UNCHANGED <<page, repos>>
       ELSE /\ repos' = <<>>
            /\ page' = 1
            /\ fpc' = "loop"
            /\ UNCHANGED <<flog, fexc>>
    /\ UNCHANGED <<env, mpc, requests, responses, fresult, rawFile>>
    /\ UNCHANGED procVars

\* lines 97-102, the code after the loop: the warning and the returned table
AfterLoop(acc) ==
    /\ fresult' = Table(ReturnValue(acc))
    /\ fpc' = "returned"

\* the warning of line 98, written when nothing was fetched
NoDataWarning(acc) ==
    IF acc = <<>> THEN <<LogRec("WARNING", "No data fetched", 0)>> ELSE <<>>

\* one iteration of the while loop, lines 67-95: the request and what follows.
\* An exception of requests.get is not caught in fetch_github_repos and leaves
\* it; a `break` runs the code after the loop (lines 97-102) and returns.
FetchPage ==
    /\ fpc = "loop"
    /\ LoopCondition(page)
    /\ requests' = Append(requests, page)
    /\ \E out \in Outcomes :
         /\ responses' = Append(responses, out)
         /\ \/ /\ out.kind = "exception"
               /\ flog' = Append(flog, LogRec("INFO", "Fetching page", page))
               /\ fexc' = "RequestException"
               /\ fpc' = "raised"
               /\ UNCHANGED <<page, repos, fresult>>
            \/ /\ out.kind = "response"
               /\ IsSuccess(out.status)
               /\ NoMoreData(Json(page, out))
               /\ flog' = flog \o <<LogRec("INFO", "Fetching page", page),
                                    LogRec("INFO", "No more data to fetch", 0)>>
                                \o NoDataWarning(repos)
               /\ AfterLoop(repos)
               /\ UNCHANGED <<page, repos, fexc>>
            \/ /\ out.kind = "response"
               /\ IsSuccess(out.status)
               /\ ~NoMoreData(Json(page, out))
               /\ repos' = ExtendRepos(repos, Json(page, out).items)
               /\ flog' = flog \o <<LogRec("INFO", "Fetching page", page),
                                    LogRec("INFO", "Fetched repositories from page", page)>>
               /\ page' = page + 1
               /\ UNCHANGED <<fpc, fexc, fresult>>
            \/ /\ out.kind = "response"
               /\ ~IsSuccess(out.status)
               /\ flog' = flog \o <<LogRec("INFO", "Fetching page", page),
                                    LogRec("ERROR", "Error fetching page", page)>>
                                \o NoDataWarning(repos)
               /\ AfterLoop(repos)
               /\ UNCHANGED <<page, repos, fexc>>
    /\ UNCHANGED <<env, mpc, rawFile>>
    /\ UNCHANGED procVars

\* the loop condition `page <= 10` is false: the code after the loop runs
FetchLoopExit ==
    /\ fpc = "loop"
    /\ ~LoopCondition(page)
    /\ flog' = flog \o NoDataWarning(repos)
    /\ AfterLoop(repos)
    /\ UNCHANGED <<env, mpc, page, repos, requests, responses, fexc, rawFile>>
    /\ UNCHANGED procVars

\* _main, lines 122-125: a non-empty table is written to data/raw, the
\* directory ensure_directories() has made
MainSave ==
    /\ mpc = "fetching"
    /\ fpc = "returned"
    /\ fresult[1] # <<>>
    /\ rawFile' = Written(fresult[1])
    /\ flog' = Append(flog, LogRec("INFO", "Data saved", 0))
    /\ mpc' = "done"
    /\ UNCHANGED <<env, fpc, page, repos, requests, responses, fresult, fexc>>
    /\ UNCHANGED procVars

\* _main, lines 126-127: an empty table is not written
MainNoData ==
    /\ mpc = "fetching"
    /\ fpc = "returned"
    /\ fresult[1] = <<>>
    /\ flog' = Append(flog, LogRec("WARNING", "No data fetched", 0))
    /\ mpc' = "done"
    /\ UNCHANGED <<env, fpc, page, repos, requests, responses, fresult, fexc, rawFile>>
    /\ UNCHANGED procVars

\* _main, lines 128-129: an exception out of fetch_github_repos is logged
MainCatch ==
    /\ mpc = "fetching"
    /\ fpc = "raised"
    /\ flog' = Append(flog, LogRec("ERROR", "An error occurred during execution", 0))
    /\ mpc' = "done"
    /\ UNCHANGED <<env, fpc, page, repos, requests, responses, fresult, fexc, rawFile>>
    /\ UNCHANGED procVars

NextFetch ==
    \/ MainCallFetch
    \/ FetchEntry
    \/ FetchPage
    \/ FetchLoopExit
    \/ MainSave
    \/ MainNoData
    \/ MainCatch

SpecFetch == InitFetch /\ [][NextFetch]_vars

\* the script is one sequential thread: a step that can be taken is taken
FairSpecFetch == SpecFetch /\ WF_vars(NextFetch)

-----------------------------------------------------------------------------
(* The processor: scripts/process_data.py *)
(* A raw row carries the columns the derived columns below are computed    *)
(* from: language, stars and forks. The columns that need the two dates    *)
(* and the capture of "now" (ages, rates, is_active) are left out; what    *)
(* the date columns can do to the run, pd.to_datetime raising on a         *)
(* malformed value, is a choice of ProcProcess.                            *)

\* largest number of rows of a raw table of the model
MaxRows == 3

\* the inner edges of `bins=[0, 10000, 50000, float("inf")]`
LowMax == 10000
ModerateMax == 50000

\* the values of a raw row's columns: a missing language, a language, and the
\* sentinel itself; stars at and next to every edge of the bins; no fork and
\* a fork
Languages == {Null, "Python", "Unknown"}
StarValues == {0, 2, LowMax, LowMax + 1, ModerateMax, ModerateMax + 1}
ForkValues == {0, 1}

\* the raw rows of the model. No derived column reads the language together
\* with a number, so the rows vary the numbers under one language and the
\* language under one pair of numbers.
RawRows ==
    {r \in [language : Languages, stars : StarValues, forks : ForkValues] :
        r.language = "Python" \/ (r.stars = 2 /\ r.forks = 0)}
RawBatches == UNION {[1..n -> RawRows] : n \in 0..MaxRows}

\* a faulty variant of FillLanguage: another fill value
FillLanguageEmpty(lang) == IF lang = Null THEN "" ELSE lang
\* `df["language"].fillna("Unknown")`
FillLanguage(lang) == IF lang = Null THEN "Unknown" ELSE lang

\* `df["stars"] + (2 * df["forks"])`
PopularityScore(stars, forks) == stars + (2 * forks)

\* `df["stars"] / df["forks"].replace(0, 1)`: a quotient, kept as <<numerator, denominator>>
StarToForkRatio(stars, forks) == <<stars, IF forks = 0 THEN 1 ELSE forks>>

\* `df["language"] != "Unknown"`
LanguageKnown(lang) == lang # "Unknown"

\* pd.cut(df["stars"], bins=[0, 10000, 50000, inf], labels=[...]) with its
\* defaults right=True, include_lowest=False: bin i is (edge i, edge i+1],
\* the last edge is infinity, and a value in no bin gets a missing category
CutEdges == <<0, LowMax, ModerateMax>>
CutLabels == <<"Low Popularity", "Moderate Popularity", "High Popularity">>
InBin(x, i) == CutEdges[i] < x /\ (i = Len(CutEdges) \/ x <= CutEdges[i + 1])
Category(stars) ==
    IF \E i \in 1..Len(CutEdges) : InBin(stars, i)
    THEN CutLabels[CHOOSE i \in 1..Len(CutEdges) : InBin(stars, i)]
    ELSE Null

\* Series.min() and Series.max() of a non-empty column
MinOf(S) == CHOOSE x \in S : \A y \in S : x <= y
MaxOf(S) == CHOOSE x \in S : \A y \in S : y <= x

\* a faulty variant of Normalized: no special case for min equal to max
NormalizedNoSpecialCase(x, lo, hi) == <<100 * (x - lo), hi - lo>>
\* a faulty variant of Normalized: the minimum is not subtracted
NormalizedNoShift(x, lo, hi) ==
    IF lo = hi
    THEN (IF x = hi THEN <<100, 1>> ELSE <<0, 1>>)
    ELSE <<100 * x, hi - lo>>
\* lines 76-79 for one value x of the column: 100 or 0 when min equals max,
\* else the quotient 100 * (x - min) / (max - min), kept as <<numerator, denominator>>
Normalized(x, lo, hi) ==
    IF lo = hi
    THEN (IF x = hi THEN <<100, 1>> ELSE <<0, 1>>)
    ELSE <<100 * (x - lo), hi - lo>>

\* process_data, lines 47 and 63-79, on the rows of df. Of an empty column
\* min and max are NaN, NaN == NaN is false, and the quotient branch yields
\* an empty column: no row reads lo or hi.
ProcessData(rows) ==
    LET score(i) == PopularityScore(rows[i].stars, rows[i].forks)
        scores == {score(i) : i \in 1..Len(rows)}
        lo == MinOf(scores)
        hi == MaxOf(scores)
    IN [i \in 1..Len(rows) |->
          [language |-> FillLanguage(rows[i].language),
           stars |-> rows[i].stars,
           forks |-> rows[i].forks,
           popularity_score |-> score(i),
           star_to_fork_ratio |-> StarToForkRatio(rows[i].stars, rows[i].forks),
           language_known |-> LanguageKnown(FillLanguage(rows[i].language)),
           category |-> Category(rows[i].stars),
           popularity_score_normalized |-> Normalized(score(i), lo, hi)]]

\* line 47 alone: what process_data has done to df when line 50 or 51 raises
LanguageFilled(rows) ==
    [i \in 1..Len(rows) |-> [rows[i] EXCEPT !.language = FillLanguage(@)]]

\* a record of the processor's log: level and the message's fixed text
PLogRec(level, msg) == <<level, msg>>

\* a faulty variant of LoadRawData: a missing file yields an empty table
LoadRawDataSwallows(file) ==
    IF file.state = "absent"
    THEN [raised |-> FALSE, exc |-> NoExc, df |-> Table(<<>>),
          log |-> <<PLogRec("INFO", "Loading raw data"),
                    PLogRec("ERROR", "Error loading raw data")>>]
    ELSE [raised |-> FALSE, exc |-> NoExc, df |-> Table(file.rows),
          log |-> <<PLogRec("INFO", "Loading raw data")>>]
\* load_raw_data(input_path): what it logs, and the table it returns or the
\* exception it raises
LoadRawData(file) ==
    IF file.state = "absent"
    THEN [raised |-> TRUE, exc |-> "FileNotFoundError", df |-> NoTable,
          log |-> <<PLogRec("INFO", "Loading raw data"),
                    PLogRec("ERROR", "Error loading raw data")>>]
    ELSE [raised |-> FALSE, exc |-> NoExc, df |-> Table(file.rows),
          log |-> <<PLogRec("INFO", "Loading raw data")>>]

InitProc ==
    /\ ppc = "start"
    /\ inputFile \in {Absent} \cup {Written(b) : b \in RawBatches}
    /\ processedFile \in {Absent, Stale}
    /\ df = NoTable
    /\ pexc = NoExc
    /\ plog = <<>>
    /\ env = Null
    /\ rawFile = Absent
    /\ mpc = "idle"
    /\ fpc = "idle"
    /\ page = 0
    /\ repos = <<>>
    /\ requests = <<>>
    /\ responses = <<>>
    /\ fresult = NoTable
    /\ fexc = NoExc
    /\ flog = <<>>

\* _main, lines 106-110: the directories, then load_raw_data(input_path)
ProcLoad ==
    /\ ppc = "start"
    /\ LET r == LoadRawData(inputFile)
       IN /\ plog' = plog \o r.log
          /\ IF r.raised
             THEN /\ pexc' = r.exc
                  /\ ppc' = "raised"
                  /\ UNCHANGED df
             ELSE /\ df' = r.df
                  /\ ppc' = "loaded"
                  /\ UNCHANGED pexc
    /\ UNCHANGED <<inputFile, processedFile>>
    /\ UNCHANGED fetchVars

\* _main, line 111: process_data(raw_data). It works on df in place; when
\* pd.to_datetime raises on a malformed date, line 47 has run and nothing else.
ProcProcess ==
    /\ ppc = "loaded"
    /\ \/ /\ df' = Table(ProcessData(df[1]))
          /\ plog' = plog \o <<PLogRec("INFO", "Processing data"),
                               PLogRec("INFO", "Data processing complete")>>
          /\ ppc' = "processed"
          /\ UNCHANGED pexc
       \/ /\ df' = Table(LanguageFilled(df[1]))
          /\ plog' = Append(plog, PLogRec("INFO", "Processing data"))
          /\ pexc' = "ValueError"
          /\ ppc' = "raised"
    /\ UNCHANGED <<inputFile, processedFile>>
    /\ UNCHANGED fetchVars

\* _main, line 112: save_processed_data(processed_data, output_path); an
\* OSError of to_csv is logged and raised again
ProcSave ==
    /\ ppc = "processed"
    /\ \/ /\ processedFile' = Written(df[1])
          /\ plog' = plog \o <<PLogRec("INFO", "Saving processed data"),
                               PLogRec("INFO", "Processed data saved successfully")>>
          /\ ppc' = "done"
          /\ UNCHANGED pexc
       \/ /\ plog' = plog \o <<PLogRec("INFO", "Saving processed data"),
                               PLogRec("ERROR", "Error saving processed data")>>
          /\ pexc' = "OSError"
          /\ ppc' = "raised"
          /\ UNCHANGED processedFile
    /\ UNCHANGED <<inputFile, df>>
    /\ UNCHANGED fetchVars

\* _main, lines 113-114: the except clause logs the exception and _main ends
ProcCatch ==
    /\ ppc = "raised"
    /\ plog' = Append(plog, PLogRec("ERROR", "An error occurred during data processing"))
    /\ ppc' = "done"
    /\ UNCHANGED <<inputFile, df, pexc, processedFile>>
    /\ UNCHANGED fetchVars

NextProc ==
    \/ ProcLoad
    \/ ProcProcess
    \/ ProcSave
    \/ ProcCatch

SpecProc == InitProc /\ [][NextProc]_vars

-----------------------------------------------------------------------------
(* Properties of the fetcher *)

\* the row a repository object of the endpoint stands for
ExpectedRow(item) ==
    [name |-> item.name,
     language |-> item.language,
     stars |-> item.stargazers_count,
     forks |-> item.forks_count,
     creation_date |-> item.created_at,
     last_commit_date |-> item.pushed_at,
     repo_url |-> item.html_url]

\* the rows of the items served in answers 1..n, in page order and within-page order
RECURSIVE RowsOfPages(_)
RowsOfPages(n) ==
    IF n = 0 THEN <<>>
    ELSE RowsOfPages(n - 1)
         \o [j \in 1..responses[n].n |-> ExpectedRow(ApiItem(n, j))]

\* the number of items served in answers 1..n
RECURSIVE ItemCount(_)
ItemCount(n) ==
    IF n = 0 THEN 0 ELSE ItemCount(n - 1) + responses[n].n

\* fetch_github_repos has returned or raised
FetchFinished == fpc \in {"returned", "raised"}

TokenSet == env # Null /\ env # ""

NumAnswers == Len(responses)

\* answer i is a 200 response
SuccessAt(i) == responses[i].kind = "response" /\ responses[i].status = 200

\* answer i is a 200 response without an items field or with no items
EmptyAt(i) ==
    SuccessAt(i) /\ (~responses[i].hasItems \/ responses[i].n = 0)

\* answer i is a response with a status other than 200
ErrorStatusAt(i) == responses[i].kind = "response" /\ responses[i].status # 200

\* the request for page i failed in the transport: requests.get raised
TransportFailureAt(i) == responses[i].kind = "exception"

AllSuccessful == \A i \in 1..NumAnswers : SuccessAt(i)

\* the first page that is empty, or one past the last answer when none is
FirstEmpty ==
    IF \E i \in 1..NumAnswers : EmptyAt(i)
    THEN CHOOSE i \in 1..NumAnswers : EmptyAt(i) /\ \A j \in 1..(i - 1) : ~EmptyAt(j)
    ELSE NumAnswers + 1

\* C1: with a token set and every response successful, fetch_github_repos
\* returns the rows of the items of the pages before the first empty page (a
\* page with no items or no items field), in page order and within-page
\* order, or of all 10 pages when none is empty; the row count is the sum of
\* the item counts of those pages.
C1_RowsUntilFirstEmptyPage ==
    (FetchFinished /\ TokenSet /\ AllSuccessful) =>
        /\ fpc = "returned"
        /\ (FirstEmpty = NumAnswers + 1 => NumAnswers = 10)
        /\ fresult = Table(RowsOfPages(FirstEmpty - 1))
        /\ Len(fresult[1]) = ItemCount(FirstEmpty - 1)

\* the run of test_fetch_github_repos_success: two items, one item, an empty page
C1_Witness ==
    /\ fpc = "returned"
    /\ TokenSet
    /\ AllSuccessful
    /\ NumAnswers = 3
    /\ responses[1].n = 2
    /\ responses[2].n = 1
    /\ EmptyAt(3)
    /\ Len(fresult[1]) = 3

\* C2: when the answer for page N has a status other than 200, the fetcher
\* does not raise and returns exactly the rows of pages 1..N-1, the empty
\* table when N = 1.
C2_PartialOnErrorStatus ==
    (NumAnswers >= 1 /\ ErrorStatusAt(NumAnswers)) =>
        /\ requests[NumAnswers] = NumAnswers
        /\ fpc = "returned"
        /\ fexc = NoExc
        /\ fresult = Table(RowsOfPages(NumAnswers - 1))
        /\ (NumAnswers = 1 => fresult = Table(<<>>))

\* a 403 on page 3 after two pages with items
C2_Witness ==
    /\ NumAnswers = 3
    /\ ErrorStatusAt(3)
    /\ responses[3].status = 403
    /\ fpc = "returned"
    /\ Len(fresult[1]) = 4

\* C3: with no token in the environment (unset or empty) fetch_github_repos
\* fails with a configuration error, and no HTTP request is issued at any
\* point.
C3_NoTokenNoRequest ==
    (env \in {Null, ""}) =>
        /\ requests = <<>>
        /\ responses = <<>>
        /\ fpc \in {"idle", "entry", "raised"}
        /\ fresult = NoTable
        /\ (fpc = "raised" => fexc = "EnvironmentError")

\* the empty token: the fetcher has raised and nothing was requested
C3_Witness ==
    /\ env = ""
    /\ fpc = "raised"
    /\ fexc = "EnvironmentError"
    /\ requests = <<>>

\* in every state the requests so far are for pages 1, 2, ..., k, at most 10
\* of them, and every request but the last was answered by a 200 response
\* with items
C4_RequestsInOrder ==
    /\ requests = [i \in 1..Len(requests) |-> i]
    /\ Len(requests) <= 10
    /\ NumAnswers = Len(requests)
    /\ \A i \in 1..(NumAnswers - 1) : SuccessAt(i) /\ ~EmptyAt(i)

\* C4: the requests are for pages 1, 2, ..., k without gaps or repeats and
\* k <= 10; no request follows a page with zero items or a non-success
\* answer; and the loop always terminates (the fetcher returns or raises).
C4_Pagination == []C4_RequestsInOrder /\ <>FetchFinished

\* all ten pages were requested and the fetcher returned
C4_Witness ==
    /\ fpc = "returned"
    /\ Len(requests) = 10
    /\ requests[10] = 10

\* the fetcher's own error record for page p (line 92)
FetcherLoggedError(p) ==
    \E i \in 1..Len(flog) : flog[i] = <<"ERROR", "Error fetching page", p>>

\* the record written by _main's except clause (line 129)
MainLoggedException ==
    \E i \in 1..Len(flog) : flog[i] = <<"ERROR", "An error occurred during execution", 0>>

\* C5 as stated: an error on page N, a non-success status or a failure of
\* the HTTP call itself, is logged inside the fetcher, and the fetcher
\* returns the rows of pages 1..N-1 without raising.
C5_Original ==
    (FetchFinished /\ NumAnswers >= 1
        /\ (ErrorStatusAt(NumAnswers) \/ TransportFailureAt(NumAnswers))) =>
        /\ FetcherLoggedError(NumAnswers)
        /\ fpc = "returned"
        /\ fresult = Table(RowsOfPages(NumAnswers - 1))

\* C5, amended: a non-success status on page N is logged inside the fetcher,
\* ends the loop, and the fetcher returns the rows of pages 1..N-1 without
\* raising. A failure of the HTTP call itself on page N is not caught by the
\* fetcher: it raises out of fetch_github_repos, which returns nothing and
\* logs no error; _main catches and logs it, writes no file and ends normally.
C5_StatusReturnsTransportRaises ==
    /\ (NumAnswers >= 1 /\ ErrorStatusAt(NumAnswers)) =>
          /\ FetcherLoggedError(NumAnswers)
          /\ fpc = "returned"
          /\ fexc = NoExc
          /\ fresult = Table(RowsOfPages(NumAnswers - 1))
    /\ (NumAnswers >= 1 /\ TransportFailureAt(NumAnswers)) =>
          /\ fpc = "raised"
          /\ fexc = "RequestException"
          /\ fresult = NoTable
          /\ ~FetcherLoggedError(NumAnswers)
          /\ rawFile = Absent
          /\ mpc \in {"fetching", "done"}
          /\ (mpc = "done" => MainLoggedException)

\* the HTTP call fails on page 3 after two pages with items; _main has ended
C5_Witness ==
    /\ NumAnswers = 3
    /\ TransportFailureAt(3)
    /\ Len(repos) >= 2
    /\ fpc = "raised"
    /\ mpc = "done"

-----------------------------------------------------------------------------
(* Properties of the processor *)

\* the raw table that was loaded, and the table process_data returned
Raw == inputFile.rows
Out == df[1]

\* process_data ran to its end (line 81)
Processed ==
    \E k \in 1..Len(plog) : plog[k] = <<"INFO", "Data processing complete">>

\* popularity_score of raw row i: stars + 2 * forks
RawScore(i) == Raw[i].stars + (2 * Raw[i].forks)

RowIds == 1..Len(Raw)

\* the scores of the batch
RawScores == {RawScore(i) : i \in RowIds}

\* popularity_score_normalized of row i as <<numerator, denominator>>
Norm(i) == Out[i].popularity_score_normalized

\* a/b <= c/d for a, c >= 0 and b, d > 0, compared exactly by the quotients'
\* whole parts and then their remainders (no product of two large numbers)
RECURSIVE FracLeq(_, _, _, _)
FracLeq(a, b, c, d) ==
    IF (a \div b) # (c \div d) THEN (a \div b) < (c \div d)
    ELSE IF a % b = 0 THEN TRUE
    ELSE IF c % d = 0 THEN FALSE
    ELSE FracLeq(d, c % d, b, a % b)

FracEq(a, b, c, d) == FracLeq(a, b, c, d) /\ FracLeq(c, d, a, b)

\* C6: in a non-empty batch whose rows all have the same popularity_score,
\* every row gets popularity_score_normalized = 100: nothing is divided by
\* zero and no row gets 0.
C6_EqualScoresGive100 ==
    (Processed /\ Cardinality(RawScores) = 1) =>
        /\ Len(Out) = Len(Raw)
        /\ \A i \in RowIds :
             /\ Norm(i)[2] > 0
             /\ Norm(i)[1] = 100 * Norm(i)[2]

\* three rows, not all alike, with one score: stars 0 forks 1, stars 2 forks 0
C6_Witness ==
    /\ Processed
    /\ Len(Raw) = 3
    /\ Raw[1].stars = 0 /\ Raw[1].forks = 1
    /\ Raw[2].stars = 2 /\ Raw[2].forks = 0
    /\ Cardinality(RawScores) = 1
    /\ \A i \in RowIds : Norm(i) = <<100, 1>>

\* C7: in a batch with at least two distinct popularity scores, where
\* popularity_score = stars + 2*forks, every row gets
\* popularity_score_normalized = 100*(score - min)/(max - min); the value
\* lies in [0, 100], is 0 on the rows with the smallest score, 100 on the
\* rows with the largest, and is monotone non-decreasing in the score.
C7_MinMaxScaling ==
    (Processed /\ Cardinality(RawScores) >= 2) =>
        LET lo == CHOOSE x \in RawScores : \A y \in RawScores : x <= y
            hi == CHOOSE x \in RawScores : \A y \in RawScores : y <= x
        IN /\ Len(Out) = Len(Raw)
           /\ \A i \in RowIds :
                /\ Out[i].popularity_score = RawScore(i)
                /\ Norm(i)[2] > 0
                /\ 0 <= Norm(i)[1]
                /\ FracEq(Norm(i)[1], Norm(i)[2], 100 * (RawScore(i) - lo), hi - lo)
                /\ Norm(i)[1] <= 100 * Norm(i)[2]
                /\ (RawScore(i) = lo => Norm(i)[1] = 0)
                /\ (RawScore(i) = hi => Norm(i)[1] = 100 * Norm(i)[2])
                /\ \A j \in RowIds :
                     RawScore(i) <= RawScore(j) =>
                         FracLeq(Norm(i)[1], Norm(i)[2], Norm(j)[1], Norm(j)[2])

\* three rows with three scores, the smallest above 0, one strictly between
\* the other two
C7_Witness ==
    /\ Processed
    /\ Len(Raw) = 3
    /\ RawScore(1) > 0
    /\ RawScore(1) < RawScore(2)
    /\ RawScore(2) < RawScore(3)
    /\ Norm(1)[1] = 0
    /\ 0 < Norm(2)[1]
    /\ Norm(2)[1] < 100 * Norm(2)[2]
    /\ Norm(3)[1] = 100 * Norm(3)[2]

\* the category the star thresholds give: Low up to 10000, Moderate above
\* 10000 up to 50000, High above 50000
ExpectedCategory(stars) ==
    IF stars <= 10000 THEN "Low Popularity"
    ELSE IF stars <= 50000 THEN "Moderate Popularity"
    ELSE "High Popularity"

\* C8: every raw record with integer stars >= 0 gets exactly one of the three
\* categories, the one its stars give by the thresholds 10000 and 50000; no
\* valid record is left without a category.
C8_EveryRecordCategorised ==
    Processed =>
        \A i \in RowIds :
            Raw[i].stars >= 0 => Out[i].category = ExpectedCategory(Raw[i].stars)

\* C9: when the raw file is missing, load_raw_data logs the error and then
\* fails with a not-found error to its caller; in a run of _main neither
\* process_data nor save_processed_data is executed afterwards, and the
\* processed file is left as it was.
C9_MissingRawFile ==
    (inputFile = Absent) =>
        /\ ppc \in {"start", "raised", "done"}
        /\ df = NoTable
        /\ processedFile.state # "written"
        /\ \A k \in 1..Len(plog) :
             plog[k][2] \notin {"Processing data", "Data processing complete",
                                "Saving processed data", "Processed data saved successfully",
                                "Error saving processed data"}
        /\ ppc # "start" =>
             /\ pexc = "FileNotFoundError"
             /\ \E k \in 1..Len(plog) : plog[k] = <<"ERROR", "Error loading raw data">>

\* the run without a raw file has ended and the file of an earlier run is there
C9_Witness ==
    /\ inputFile = Absent
    /\ ppc = "done"
    /\ pexc = "FileNotFoundError"
    /\ processedFile = Stale

\* C10: after process_data every row whose raw language was null has
\* language "Unknown" and language_known false, and every row whose raw
\* language was a value keeps it.
C10_NullLanguageBecomesUnknown ==
    Processed =>
        /\ Len(Out) = Len(Raw)
        /\ \A i \in RowIds :
             /\ Raw[i].language = Null =>
                  (Out[i].language = "Unknown" /\ Out[i].language_known = FALSE)
             /\ Raw[i].language # Null => Out[i].language = Raw[i].language

\* the batch of test_process_data: a row with a language and a row without
C10_Witness ==
    /\ Processed
    /\ Len(Raw) = 2
    /\ Raw[1].language = "Python"
    /\ Raw[2].language = Null
    /\ Out[1].language = "Python"
    /\ Out[2].language = "Unknown"
    /\ Out[2].language_known = FALSE

=============================================================================
